---- MODULE Spec2Model ----
(***************************************************************************)
(* Model of src/main.py: the transportation (minimum-cost network flow)    *)
(* linear program built with Pyomo, its solution by the external solver,   *)
(* and the report with the sensibility analysis.                           *)
(*                                                                         *)
(* One run of solve_problem_and_print_results is the pipeline              *)
(*    loaded --CreateInstance--> instance --Solve--> solved --Print*--> done*)
(* and a Python exception ends the run in pc = "raised".                   *)
(*                                                                         *)
(* Quantities are integers.  The constraint matrix of a transportation     *)
(* problem is totally unimodular, so with integral data the linear program *)
(* is feasible iff it has an integral feasible point and its optimum is    *)
(* attained at integral vertices, which is what a simplex solver returns.  *)
(***************************************************************************)
EXTENDS Integers, FiniteSets, Sequences, TLC

\* Names that the data file may mention (the names of the scenario comments).
AllSources == {"Arn", "Gou"}
AllCustomers == {"Ams", "Lon"}

\* Largest capacity, demand and fixed quantity of the data.
MaxQty == 1
\* Largest unit transportation cost of the data.
MaxCost == 2
\* Largest magnitude of a dual value or reduced cost reported by the solver.
MaxDual == 1

VARIABLES
    pc,                    \* position of the run
    sSources,              \* model.sSources
    sCustomers,            \* model.sCustomers
    sSources_sCustomers,   \* model.sSources_sCustomers
    pSourceProduction,     \* model.pSourceProduction
    pCustomerDemand,       \* model.pCustomerDemand
    pTransportationCosts,  \* model.pTransportationCosts
    pFixedTransportation,  \* model.pFixedTransportation (partial: no default)
    instance,              \* the concrete model: variables, constraints, suffixes
    results,               \* results.solver.status / termination_condition
    report,                \* what the run printed
    raised                 \* the exception that ended the run, or "none"

data == <<sSources, sCustomers, sSources_sCustomers, pSourceProduction,
          pCustomerDemand, pTransportationCosts, pFixedTransportation>>
vars == <<pc, data, instance, results, report, raised>>

EmptyFn == [x \in {} |-> 0]

RECURSIVE SumOver(_, _)
\* Python's sum(f[a] for a in S)
SumOver(S, f) ==
    IF S = {} THEN 0
    ELSE LET a == CHOOSE x \in S : TRUE IN f[a] + SumOver(S \ {a}, f)

RECURSIVE Dot(_, _, _)
\* Python's sum(k[a] * f[a] for a in S)
Dot(S, k, f) ==
    IF S = {} THEN 0
    ELSE LET a == CHOOSE x \in S : TRUE IN k[a] * f[a] + Dot(S \ {a}, k, f)

Abs(n) == IF n < 0 THEN -n ELSE n

----------------------------------------------------------------------------
(* create_model: the declarations of the abstract model                    *)

\* Mutant: the flow variable declared over every (source, customer) pair.
vQuantity_all_pairs == sSources \X sCustomers

\* Var(model.sSources_sCustomers, domain=NonNegativeReals, initialize=0)
vQuantityExchangedSourceCustomer == sSources_sCustomers

\* Constraint(model.sSources, rule=c01_production_limit_satisfaction)
c01_index == sSources

\* Mutant: the demand constraint skipped for a customer without incoming arc.
c02_index_with_arcs ==
    {c \in sCustomers : \E s \in sSources : <<s, c>> \in sSources_sCustomers}

\* Constraint(model.sCustomers, rule=c02_demand_limit_satisfaction)
c02_index == sCustomers

\* Constraint(model.sSources, model.sCustomers, rule=c03_fixed_transportations)
c03_index == sSources \X sCustomers

\* Mutant: the membership test with the pair the wrong way round, which
\* leaves the sum empty.
c01_swapped_pair(iSource) ==
    [body  |-> {<<iSource, iCustomer>> : iCustomer \in
                   {c \in sCustomers : <<c, iSource>> \in sSources_sCustomers}},
     upper |-> pSourceProduction[iSource]]

c01_production_limit_satisfaction(iSource) ==
    [body  |-> {<<iSource, iCustomer>> : iCustomer \in
                   {c \in sCustomers : <<iSource, c>> \in sSources_sCustomers}},
     upper |-> pSourceProduction[iSource]]

c02_demand_limit_satisfaction(iCustomer) ==
    [body  |-> {<<iSource, iCustomer>> : iSource \in
                   {s \in sSources : <<s, iCustomer>> \in sSources_sCustomers}},
     lower |-> pCustomerDemand[iCustomer]]

\* value() of a mutable Param entry that has neither data nor default raises
\* ValueError; "and" evaluates it only for a pair of the arc set.
c03_fixed_transportations(iSource, iCustomer) ==
    IF <<iSource, iCustomer>> \notin sSources_sCustomers
    THEN [kind |-> "Skip"]
    ELSE IF <<iSource, iCustomer>> \notin DOMAIN pFixedTransportation
    THEN [kind |-> "ValueError"]
    ELSE IF pFixedTransportation[<<iSource, iCustomer>>] # 0
    THEN [kind |-> "eq", var |-> <<iSource, iCustomer>>,
          rhs |-> pFixedTransportation[<<iSource, iCustomer>>]]
    ELSE [kind |-> "Skip"]

\* Mutant: the objective without the unit costs.
obj_expression_unit_cost ==
    [a \in {p \in sSources \X sCustomers : p \in sSources_sCustomers} |-> 1]

\* The objective: the coefficient of every term.
obj_expression ==
    [a \in {p \in sSources \X sCustomers : p \in sSources_sCustomers}
        |-> pTransportationCosts[a]]

NoInstance ==
    [created |-> FALSE, var |-> {}, value |-> EmptyFn,
     c01 |-> EmptyFn, c02 |-> EmptyFn, c03 |-> EmptyFn, f_obj |-> EmptyFn,
     dual |-> [c01 |-> EmptyFn, c02 |-> EmptyFn], rc |-> EmptyFn]

NoResults == [status |-> "none", termination |-> "none"]

NoReport ==
    [printed |-> {}, total |-> 0, quantity |-> EmptyFn,
     sources |-> EmptyFn, sourceConclusions |-> {},
     customers |-> EmptyFn, customerConclusions |-> {},
     routes |-> EmptyFn, routeConclusions |-> {}]

----------------------------------------------------------------------------
(* load_data_json_format: the data of one problem                          *)

\* The node sets of a data file: two sources and one customer, or one source
\* and two customers.
Networks == {<<{"Arn", "Gou"}, {"Ams"}>>, <<{"Arn"}, {"Ams", "Lon"}>>}

\* The arc set of a data file: any pairs, those whose source or customer is
\* not in the node sets included.
ArcSets == SUBSET ((AllSources \X AllCustomers) \ {<<"Gou", "Lon">>})

Init ==
    /\ pc = "loaded"
    /\ \E n \in Networks : sSources = n[1] /\ sCustomers = n[2]
    /\ sSources_sCustomers \in ArcSets
    /\ pSourceProduction \in [sSources -> -1 .. MaxQty]
    /\ pCustomerDemand \in [sCustomers -> -1 .. MaxQty]
    \* The cost of a pair outside sSources x sCustomers is never read (the
    \* objective iterates the node sets), so it takes one value.
    /\ pTransportationCosts \in
          {c \in [sSources_sCustomers -> 1 .. MaxCost] :
              \A a \in sSources_sCustomers \ (sSources \X sCustomers) : c[a] = 1}
    /\ \E given \in SUBSET sSources_sCustomers :
          pFixedTransportation \in [given -> -1 .. MaxQty]
    /\ instance = NoInstance
    /\ results = NoResults
    /\ report = NoReport
    /\ raised = "none"

----------------------------------------------------------------------------
(* model.create_instance(data)                                             *)

CreateInstance ==
    /\ pc = "loaded"
    /\ LET rules == [p \in c03_index |-> c03_fixed_transportations(p[1], p[2])]
       IN  IF \E p \in c03_index : rules[p].kind = "ValueError"
           THEN /\ pc' = "raised"
                /\ raised' = "ValueError"
                /\ UNCHANGED instance
           ELSE /\ pc' = "instance"
                /\ raised' = raised
                /\ instance' =
                     [created |-> TRUE,
                      var   |-> vQuantityExchangedSourceCustomer,
                      value |-> [a \in vQuantityExchangedSourceCustomer |-> 0],
                      c01   |-> [s \in c01_index |->
                                    c01_production_limit_satisfaction(s)],
                      c02   |-> [c \in c02_index |->
                                    c02_demand_limit_satisfaction(c)],
                      c03   |-> [p \in {q \in c03_index : rules[q].kind = "eq"}
                                    |-> rules[p]],
                      f_obj |-> obj_expression,
                      dual  |-> [c01 |-> EmptyFn, c02 |-> EmptyFn],
                      rc    |-> EmptyFn]
    /\ UNCHANGED <<data, results, report>>

----------------------------------------------------------------------------
(* opt.solve(instance): the external solver                                *)

\* The variables that occur in the linear program written for the solver.
LPVars(inst) ==
    UNION {inst.c01[s].body : s \in DOMAIN inst.c01}
    \cup UNION {inst.c02[c].body : c \in DOMAIN inst.c02}
    \cup DOMAIN inst.c03
    \cup DOMAIN inst.f_obj

Feasible(inst, x) ==
    /\ \A s \in DOMAIN inst.c01 : SumOver(inst.c01[s].body, x) <= inst.c01[s].upper
    /\ \A c \in DOMAIN inst.c02 : SumOver(inst.c02[c].body, x) >= inst.c02[c].lower
    /\ \A p \in DOMAIN inst.c03 : x[inst.c03[p].var] = inst.c03[p].rhs

\* instance.f_obj() at the point x
ObjValue(inst, x) == Dot(DOMAIN inst.f_obj, inst.f_obj, x)

\* Domain NonNegativeReals: every flow is >= 0.
FeasibleFlows(inst) ==
    {x \in [LPVars(inst) -> 0 .. MaxQty] : Feasible(inst, x)}

OptimalFlows(inst) ==
    LET F == FeasibleFlows(inst)
    IN  {x \in F : \A y \in F : ObjValue(inst, x) <= ObjValue(inst, y)}

\* What the solver reports.  The vertex it stops at and its sign convention
\* are its own: under convention 1 the dual value of a <= row is <= 0, that
\* of a >= row is >= 0 and the reduced cost of a variable at its lower bound
\* is >= 0; convention -1 negates all three.  Complementary slackness makes
\* the value zero for a row that is not binding and for a nonzero variable.
SignConventions == {1, -1}

DualRange == 0 .. MaxDual

DualsC01(inst, x, sign) ==
    {d \in [DOMAIN inst.c01 -> {-sign * m : m \in DualRange}] :
        \A s \in DOMAIN inst.c01 :
            SumOver(inst.c01[s].body, x) # inst.c01[s].upper => d[s] = 0}

DualsC02(inst, x, sign) ==
    {d \in [DOMAIN inst.c02 -> {sign * m : m \in DualRange}] :
        \A c \in DOMAIN inst.c02 :
            SumOver(inst.c02[c].body, x) # inst.c02[c].lower => d[c] = 0}

ReducedCosts(inst, x, sign) ==
    {r \in [DOMAIN x -> {sign * m : m \in DualRange}] :
        \A a \in DOMAIN x : x[a] # 0 => r[a] = 0}

\* A solver that stops without a verdict.
AbnormalOutcomes ==
    {[status |-> "aborted", termination |-> "maxTimeLimit"],
     [status |-> "error", termination |-> "error"]}

\* Variables outside the linear program keep their initial value.
LoadSolution(inst, x, d1, d2, r) ==
    [inst EXCEPT !.value = [a \in inst.var |->
                               IF a \in DOMAIN x THEN x[a] ELSE inst.value[a]],
                 !.dual = [c01 |-> d1, c02 |-> d2],
                 !.rc = r]

Solve ==
    /\ pc = "instance"
    /\ pc' = "solved"
    /\ \/ /\ FeasibleFlows(instance) # {}
          /\ \E x \in OptimalFlows(instance), sign \in SignConventions :
             \E d1 \in DualsC01(instance, x, sign) :
             \E d2 \in DualsC02(instance, x, sign) :
             \E r \in ReducedCosts(instance, x, sign) :
                instance' = LoadSolution(instance, x, d1, d2, r)
          /\ results' = [status |-> "ok", termination |-> "optimal"]
       \/ /\ FeasibleFlows(instance) = {}
          /\ results' = [status |-> "warning", termination |-> "infeasible"]
          /\ UNCHANGED instance
       \/ /\ results' \in AbnormalOutcomes
          /\ UNCHANGED instance
    /\ UNCHANGED <<data, report, raised>>

----------------------------------------------------------------------------
(* The report of solve_problem_and_print_results                           *)

\* The three texts of a conclusion: the cost is reduced by abs(value),
\* increased in value, or remains equal.
print_conclusions_sources_sensibility_analysis(shadow_price, source) ==
    IF shadow_price < 0
    THEN [text |-> "reduced by", amount |-> Abs(shadow_price), at |-> source]
    ELSE IF shadow_price > 0
    THEN [text |-> "increased in", amount |-> shadow_price, at |-> source]
    ELSE [text |-> "remain equal", amount |-> 0, at |-> source]

\* Mutant: the direction of the cost reversed.
print_conclusions_customers_reversed(shadow_price, customer) ==
    IF shadow_price < 0
    THEN [text |-> "increased in", amount |-> Abs(shadow_price), at |-> customer]
    ELSE IF shadow_price > 0
    THEN [text |-> "reduced by", amount |-> shadow_price, at |-> customer]
    ELSE [text |-> "remain equal", amount |-> 0, at |-> customer]

print_conclusions_customers_sensibility_analysis(shadow_price, customer) ==
    IF shadow_price < 0
    THEN [text |-> "reduced by", amount |-> Abs(shadow_price), at |-> customer]
    ELSE IF shadow_price > 0
    THEN [text |-> "increased in", amount |-> shadow_price, at |-> customer]
    ELSE [text |-> "remain equal", amount |-> 0, at |-> customer]

print_conclusions_routes_sensibility_analysis(reduced_cost, source, customer) ==
    IF reduced_cost < 0
    THEN [text |-> "reduced by", amount |-> Abs(reduced_cost),
          at |-> <<source, customer>>]
    ELSE IF reduced_cost > 0
    THEN [text |-> "increased in", amount |-> reduced_cost,
          at |-> <<source, customer>>]
    ELSE [text |-> "remain equal", amount |-> 0, at |-> <<source, customer>>]

\* The condition of the first branch.
IsOptimal(res) == res.termination = "optimal" /\ res.status = "ok"

\* Mutant: every termination but optimal taken for infeasible.
IsInfeasible_any_failure(res) == res.termination # "optimal"

\* The condition of the elif branch.
IsInfeasible(res) == res.termination = "infeasible"

dict_quantity_sources_customers(inst) ==
    [a \in {p \in sSources \X sCustomers :
               p \in sSources_sCustomers /\ inst.value[p] > 0}
        |-> inst.value[a]]

dict_source_sensibility_analysis(inst) ==
    [iSource \in sSources |->
        [Capacity    |-> pSourceProduction[iSource],
         Shipped     |-> SumOver(inst.c01[iSource].body, inst.value),
         ShadowPrice |-> inst.dual.c01[iSource]]]

dict_customers_sensibility_analysis(inst) ==
    [iCustomer \in sCustomers |->
        [Demand      |-> pCustomerDemand[iCustomer],
         Shipped     |-> SumOver(inst.c02[iCustomer].body, inst.value),
         ShadowPrice |-> inst.dual.c02[iCustomer]]]

dict_routes_sensibility_analysis(inst) ==
    [a \in {p \in sSources \X sCustomers : p \in sSources_sCustomers} |->
        [Quantity    |-> inst.value[a],
         ReducedCost |-> inst.rc[a]]]

\* The rows a conclusion is printed for.
SourcesWithoutSlack(tbl) == {s \in DOMAIN tbl : tbl[s].Capacity = tbl[s].Shipped}
CustomersWithoutMargin(tbl) == {c \in DOMAIN tbl : tbl[c].Demand = tbl[c].Shipped}
RoutesWithoutQuantity(tbl) == {a \in DOMAIN tbl : tbl[a].Quantity = 0}

\* pd.MultiIndex.from_tuples raises TypeError on an empty list of tuples.
from_tuples_raises(keys) == keys = {}

PrintOptimal ==
    /\ pc = "solved"
    /\ IsOptimal(results)
    /\ LET total  == ObjValue(instance, instance.value)
           qty    == dict_quantity_sources_customers(instance)
           src    == dict_source_sensibility_analysis(instance)
           cus    == dict_customers_sensibility_analysis(instance)
           rts    == dict_routes_sensibility_analysis(instance)
       IN  IF from_tuples_raises(DOMAIN qty)
           THEN /\ pc' = "raised"
                /\ raised' = "TypeError"
                /\ report' = [report EXCEPT
                                 !.printed = {"status", "termination", "total"},
                                 !.total = total]
           ELSE /\ pc' = "done"
                /\ raised' = raised
                /\ report' =
                     [printed |-> {"status", "termination", "total", "quantity",
                                   "sources", "customers", "routes"},
                      total |-> total,
                      quantity |-> qty,
                      sources |-> src,
                      sourceConclusions |->
                         {print_conclusions_sources_sensibility_analysis(
                              src[s].ShadowPrice, s) : s \in SourcesWithoutSlack(src)},
                      customers |-> cus,
                      customerConclusions |->
                         {print_conclusions_customers_sensibility_analysis(
                              cus[c].ShadowPrice, c) : c \in CustomersWithoutMargin(cus)},
                      routes |-> rts,
                      routeConclusions |->
                         {print_conclusions_routes_sensibility_analysis(
                              rts[a].ReducedCost, a[1], a[2]) :
                                  a \in RoutesWithoutQuantity(rts)}]
    /\ UNCHANGED <<data, instance, results>>

PrintInfeasible ==
    /\ pc = "solved"
    /\ ~IsOptimal(results)
    /\ IsInfeasible(results)
    /\ pc' = "done"
    /\ report' = [report EXCEPT !.printed = {"status", "termination", "diagnostics"}]
    /\ UNCHANGED <<data, instance, results, raised>>

PrintOther ==
    /\ pc = "solved"
    /\ ~IsOptimal(results)
    /\ ~IsInfeasible(results)
    /\ pc' = "done"
    /\ report' = [report EXCEPT !.printed = {"status", "termination"}]
    /\ UNCHANGED <<data, instance, results, raised>>

Next ==
    \/ CreateInstance
    \/ Solve
    \/ PrintOptimal
    \/ PrintInfeasible
    \/ PrintOther

Spec == Init /\ [][Next]_vars

----------------------------------------------------------------------------
(* Properties.  They are stated on the data, the solution and the report,  *)
(* and recompute what they need from the data.                             *)

\* The declared arcs that leave a source / enter a customer.
Outgoing(s) == {a \in sSources_sCustomers : a[1] = s}
Incoming(c) == {a \in sSources_sCustomers : a[2] = c}

ReportedOptimal == results.termination = "optimal" /\ results.status = "ok"
SolverInvoked == results.status # "none"
SensitivityPrinted ==
    \/ report.printed \cap {"sources", "customers", "routes"} # {}
    \/ report.sourceConclusions # {}
    \/ report.customerConclusions # {}
    \/ report.routeConclusions # {}
NoTables ==
    /\ report.quantity = EmptyFn
    /\ report.sources = EmptyFn
    /\ report.customers = EmptyFn
    /\ report.routes = EmptyFn

\* The conclusion that the sign of a value selects.
SignConclusion(v, at) ==
    IF v < 0 THEN [text |-> "reduced by", amount |-> -v, at |-> at]
    ELSE IF v > 0 THEN [text |-> "increased in", amount |-> v, at |-> at]
    ELSE [text |-> "remain equal", amount |-> 0, at |-> at]

\* C1: the sensitivity tables and conclusions are produced only when the
\* outcome is Optimal; a run that ends on the Infeasible outcome has printed
\* the status, the termination condition and the solver's diagnostic dump and
\* nothing else; a run that ends on any other non-optimal outcome has printed
\* the status and the termination condition only.
C1_OutcomeDecidesReport ==
    /\ SensitivityPrinted => ReportedOptimal
    /\ "diagnostics" \in report.printed => results.termination = "infeasible"
    /\ (pc = "done" /\ ~ReportedOptimal /\ results.termination = "infeasible")
          => /\ report.printed = {"status", "termination", "diagnostics"}
             /\ NoTables /\ ~SensitivityPrinted
    /\ (pc = "done" /\ ~ReportedOptimal /\ results.termination # "infeasible")
          => /\ report.printed = {"status", "termination"}
             /\ NoTables /\ ~SensitivityPrinted

C1_Witness ==
    /\ pc = "done"
    /\ results.termination = "infeasible"
    /\ report.printed = {"status", "termination", "diagnostics"}

\* The data is malformed: an arc with an unknown endpoint, or a negative
\* capacity, demand or fixed quantity.
Malformed ==
    \/ \E a \in sSources_sCustomers : a[1] \notin sSources \/ a[2] \notin sCustomers
    \/ \E s \in sSources : pSourceProduction[s] < 0
    \/ \E c \in sCustomers : pCustomerDemand[c] < 0
    \/ \E a \in DOMAIN pFixedTransportation : pFixedTransportation[a] < 0

\* C2: on malformed data the formulation fails with a SchemaViolation: no
\* instance is created and the solver is never invoked.
C2_MalformedDataRejected ==
    Malformed =>
        /\ ~instance.created
        /\ ~SolverInvoked
        /\ pc # "loaded" => raised = "SchemaViolation"

\* C3: the fixed-flow family has an equality constraint for a pair iff the
\* pair is a declared arc with a nonzero fixed quantity, and in every Optimal
\* solution each arc with a nonzero fixed quantity carries exactly it.
C3_FixedFlowFamily ==
    instance.created =>
        /\ \A p \in AllSources \X AllCustomers :
              (p \in DOMAIN instance.c03) <=>
                 /\ p \in sSources_sCustomers
                 /\ p \in DOMAIN pFixedTransportation
                 /\ pFixedTransportation[p] # 0
        /\ \A p \in DOMAIN instance.c03 :
              /\ instance.c03[p].var = p
              /\ instance.c03[p].rhs = pFixedTransportation[p]
        /\ ReportedOptimal =>
              \A a \in DOMAIN pFixedTransportation :
                 pFixedTransportation[a] # 0 =>
                    instance.value[a] = pFixedTransportation[a]

\* The statement of C3 for the pairs of declared sources and customers only.
FixedFlowFamilyOnIndex ==
    instance.created =>
        /\ \A p \in sSources \X sCustomers :
              (p \in DOMAIN instance.c03) <=>
                 /\ p \in sSources_sCustomers
                 /\ pFixedTransportation[p] # 0
        /\ \A p \in DOMAIN instance.c03 :
              /\ instance.c03[p].var = p
              /\ instance.c03[p].rhs = pFixedTransportation[p]
        /\ ReportedOptimal =>
              \A a \in (sSources \X sCustomers) \cap DOMAIN pFixedTransportation :
                 pFixedTransportation[a] # 0 =>
                    instance.value[a] = pFixedTransportation[a]

\* C4: when the data gives no fixed quantity for a declared arc the
\* formulation succeeds, and the arc gets no fixed-flow constraint (stated
\* for data that is not malformed).
C4_MissingFixedFlowUnspecified ==
    (/\ pc # "loaded"
     /\ ~Malformed
     /\ sSources_sCustomers \ DOMAIN pFixedTransportation # {}) =>
        /\ raised = "none"
        /\ instance.created
        /\ \A a \in sSources_sCustomers \ DOMAIN pFixedTransportation :
              a \notin DOMAIN instance.c03

\* C5: in every solution reported as Optimal every declared arc's flow is
\* >= 0, every source ships at most its capacity over its declared outgoing
\* arcs, and every customer receives at least its demand over its declared
\* incoming arcs; every source has a capacity constraint, over the empty sum
\* when it has no outgoing arc.
C5_OptimalSolutionIsFeasible ==
    /\ instance.created =>
          \A s \in sSources :
             /\ s \in DOMAIN instance.c01
             /\ Outgoing(s) = {} => instance.c01[s].body = {}
    /\ ReportedOptimal =>
          /\ \A a \in sSources_sCustomers : instance.value[a] >= 0
          /\ \A s \in sSources :
                SumOver(Outgoing(s), instance.value) <= pSourceProduction[s]
          /\ \A c \in sCustomers :
                SumOver(Incoming(c), instance.value) >= pCustomerDemand[c]

C5_Witness ==
    /\ pc = "done"
    /\ ReportedOptimal
    /\ \E s \in sSources : Outgoing(s) = {}
    /\ \E a \in sSources_sCustomers : instance.value[a] > 0
    /\ \E c \in sCustomers : pCustomerDemand[c] > 0

\* A customer with a positive demand and no declared incoming arc.
Stranded(c) == pCustomerDemand[c] > 0 /\ Incoming(c) = {}

\* C6: in an instance where some customer has a positive demand and no
\* declared incoming arc, that customer's demand constraint is generated
\* (over the empty sum), the run never reports Optimal and prints no total, no
\* flow table and no sensitivity table, and the solver's verdict, when it
\* gives one, is infeasible, which the run reports with the diagnostics.
C6_StrandedCustomerIsInfeasible ==
    (instance.created /\ \E c \in sCustomers : Stranded(c)) =>
        /\ \A c \in sCustomers :
              Stranded(c) =>
                 /\ c \in DOMAIN instance.c02
                 /\ instance.c02[c].body = {}
                 /\ instance.c02[c].lower = pCustomerDemand[c]
        /\ results.termination # "optimal"
        /\ report.printed \cap {"total", "quantity", "sources", "customers", "routes"} = {}
        /\ NoTables /\ ~SensitivityPrinted
        /\ results.status \in {"ok", "warning"} => results.termination = "infeasible"
        /\ (pc = "done" /\ results.status \in {"ok", "warning"})
              => "diagnostics" \in report.printed

C6_Witness ==
    /\ pc = "done"
    /\ \E c \in sCustomers : Stranded(c)
    /\ results.termination = "infeasible"
    /\ "diagnostics" \in report.printed

\* C7: a flow variable exists only for a pair of the declared arc set, and
\* the quantity table and the routes table hold declared arcs only.
C7_FlowOnlyOnDeclaredArcs ==
    /\ instance.var \subseteq sSources_sCustomers
    /\ DOMAIN instance.value \subseteq sSources_sCustomers
    /\ DOMAIN instance.rc \subseteq sSources_sCustomers
    /\ DOMAIN report.quantity \subseteq sSources_sCustomers
    /\ DOMAIN report.routes \subseteq sSources_sCustomers

C7_Witness ==
    /\ pc = "done"
    /\ ReportedOptimal
    /\ (sSources \X sCustomers) \ sSources_sCustomers # {}
    /\ DOMAIN report.quantity # {}
    /\ DOMAIN report.routes # {}

DemandBinding(c) == pCustomerDemand[c] = SumOver(Incoming(c), instance.value)

CustomerConclusionsAt(c) == {k \in report.customerConclusions : k.at = c}

C10_ConclusionsForBindingRows ==
    (pc \in {"done", "raised"} /\ ReportedOptimal /\ ~Malformed) =>
        /\ \A s \in sSources :
              {k \in report.sourceConclusions : k.at = s} =
                 IF pSourceProduction[s] = SumOver(Outgoing(s), instance.value)
                 THEN {SignConclusion(instance.dual.c01[s], s)}
                 ELSE {}
        /\ \A a \in sSources_sCustomers :
              IF instance.value[a] = 0
              THEN /\ a \in DOMAIN instance.rc
                   /\ {k \in report.routeConclusions : k.at = a} =
                         {SignConclusion(instance.rc[a], a)}
              ELSE {k \in report.routeConclusions : k.at = a} = {}

\* The statement of C10 for the runs that print the three tables, and for the
\* arcs between a declared source and a declared customer.
ConclusionsWhenTablesPrinted ==
    "routes" \in report.printed =>
        /\ \A s \in sSources :
              {k \in report.sourceConclusions : k.at = s} =
                 IF pSourceProduction[s] = SumOver(Outgoing(s), instance.value)
                 THEN {SignConclusion(instance.dual.c01[s], s)}
                 ELSE {}
        /\ \A a \in sSources_sCustomers \cap (sSources \X sCustomers) :
              {k \in report.routeConclusions : k.at = a} =
                 IF instance.value[a] = 0
                 THEN {SignConclusion(instance.rc[a], a)}
                 ELSE {}
        /\ \A k \in report.routeConclusions : k.at \in sSources_sCustomers
        /\ \A k \in report.sourceConclusions : k.at \in sSources
====
